---- MODULE Spec2Model ----
(***************************************************************************)
(* Wiki Space Access: the client-side form script of the "Wiki Space       *)
(* Access" DocType (three revisions of it are in the repository) and the   *)
(* access resolution of Wiki Page described in the Wiki Page README.       *)
(*                                                                         *)
(* The form script is modelled handler by handler.  A handler is an        *)
(* operator from the form state (a record holding frm.doc.wiki_space,      *)
(* frm.doc.access_list, frm.old_wiki_space, frm.route_value, the open      *)
(* frappe.confirm dialog, the outstanding frappe.db.get_doc requests and   *)
(* the side effects of the running event) to the form state after it.      *)
(***************************************************************************)
EXTENDS Naturals, Sequences, FiniteSets

VARIABLES
    script,          \* which revision of the form script is installed
    loaded,          \* the form's onload/refresh have run
    wiki_space,      \* frm.doc.wiki_space
    access_list,     \* frm.doc.access_list: [defined, rows]
    old_wiki_space,  \* frm.old_wiki_space
    route_value,     \* frm.route_value
    dialog,          \* the open frappe.confirm dialog and what its callbacks captured
    requests,        \* outstanding frappe.db.get_doc('Wiki Space', name): name -> count
    effects,         \* side effects of the last event, in order
    user_access,         \* Wiki User Access of each user: [status, grants]
    space_access,        \* Wiki Space Access records: [status, space, entries]
    allow_guest,         \* the Wiki Pages with allow_guest set
    disable_guest_access \* Wiki Settings.disable_guest_access

editor_vars == <<script, loaded, wiki_space, access_list, old_wiki_space, route_value,
                 dialog, requests, effects>>

record_vars == <<user_access, space_access, allow_guest, disable_guest_access>>

vars == <<editor_vars, record_vars>>

----------------------------------------------------------------------------
(* Bounds *)

MaxRows == 2
MaxPending == 2
MaxGrants == 2
MaxEntries == 1

----------------------------------------------------------------------------
(* JavaScript values *)

Undefined == "undefined"
Null == "null"
Empty == ""

Falsy == {Undefined, Null, Empty}

Truthy(v) == v \notin Falsy

\* a || b
Or(a, b) == IF Truthy(a) THEN a ELSE b

----------------------------------------------------------------------------
(* Records of the site *)

Scripts == {"part_000", "part_001", "wiki_space_access"}

Spaces == {"eng", "sales", "misc"}

\* Wiki Space.route, as frappe.db.get_doc delivers it in doc.route
SpaceRoute(s) ==
    CASE s = "eng" -> "wiki/eng"
      [] s = "sales" -> "wiki/sales"
      [] OTHER -> Empty

Pages == {"eng-intro", "sales-intro"}

PageSpace(p) == IF p = "eng-intro" THEN "eng" ELSE "sales"

Values == Falsy \cup Spaces

Routes == {Undefined} \cup {SpaceRoute(s) : s \in Spaces}

----------------------------------------------------------------------------
(* The form state *)

NoDialog == [open |-> FALSE, new_value |-> Undefined, old_value |-> Undefined]

Frm ==
    [wiki_space |-> wiki_space, access_list |-> access_list,
     old_wiki_space |-> old_wiki_space, route_value |-> route_value,
     dialog |-> dialog, requests |-> requests, effects |-> effects]

Effect(f, e) == [f EXCEPT !.effects = Append(@, e)]

\* frm.doc.access_list && frm.doc.access_list.length > 0
\* frm.doc.access_list?.length > 0
HasRows(f) == f.access_list.defined /\ Len(f.access_list.rows) > 0

\* frappe.db.get_doc('Wiki Space', name): the request leaves, the promise is pending
get_doc(f, name) ==
    Effect([f EXCEPT !.requests[name] = @ + 1], "get_doc")

\* frm.clear_table("access_list")
clear_table(f) ==
    Effect([f EXCEPT !.access_list = [defined |-> TRUE, rows |-> <<>>]], "clear_table")

\* frm.refresh_field('access_list')
refresh_field(f) == Effect(f, "refresh_field")

\* frm.set_query('page', 'access_list', ...): the closure reads frm.route_value when
\* the selector asks for choices, so registering it stores nothing
set_query(f) == Effect(f, "set_query")

\* frappe.confirm(message, yes, no): the dialog opens and the handler goes on; the
\* callbacks keep the handler's new_value and old_value
confirm(f, new_value, old_value) ==
    Effect([f EXCEPT !.dialog = [open |-> TRUE, new_value |-> new_value,
                                 old_value |-> old_value]], "confirm")

----------------------------------------------------------------------------
(* src/unnamed/part_001 *)

update_wiki_space_route(f) ==
    IF ~Truthy(f.wiki_space) THEN f ELSE get_doc(f, f.wiki_space)

\* the .then callback of update_wiki_space_route, run with the fetched doc.route
update_wiki_space_route_then(f, route) ==
    LET g == [f EXCEPT !.route_value = Or(route, Empty)]
    IN  IF Truthy(g.route_value) THEN refresh_field(g) ELSE g

onload_001(f) ==
    update_wiki_space_route([f EXCEPT !.old_wiki_space = f.wiki_space])

refresh_001(f) == set_query(f)

\* faulty variant: the confirmed value is not recorded
proceed_001_keeps_old(f, new_value) ==
    update_wiki_space_route(refresh_field(clear_table(f)))

proceed_001(f, new_value) ==
    [update_wiki_space_route(refresh_field(clear_table(f)))
        EXCEPT !.old_wiki_space = new_value]

\* faulty variant: the new value is not compared with the stored one
wiki_space_001_unconditional(f) ==
    IF HasRows(f) THEN confirm(f, f.wiki_space, Or(f.old_wiki_space, Null))
    ELSE proceed_001(f, f.wiki_space)

wiki_space_001(f) ==
    LET new_value == f.wiki_space
        old_value == Or(f.old_wiki_space, Null)
    IN  IF new_value = old_value THEN f
        ELSE IF HasRows(f) THEN confirm(f, new_value, old_value)
        ELSE proceed_001(f, new_value)

----------------------------------------------------------------------------
(* src/unnamed/part_000 *)

fetch_wiki_space(f) == get_doc(f, f.wiki_space)

\* the .then callback of fetch_wiki_space
fetch_wiki_space_then(f, route) ==
    refresh_field([Effect(f, "console.log") EXCEPT !.route_value = route])

onload_000(f) == [f EXCEPT !.old_wiki_space = f.wiki_space]

refresh_000(f) == set_query(f)

\* the Yes callback of the confirmation
yes_000(f, new_value) ==
    [fetch_wiki_space(refresh_field(clear_table(f)))
        EXCEPT !.old_wiki_space = new_value]

wiki_space_000(f) ==
    LET new_value == f.wiki_space
        old_value == Or(f.old_wiki_space, Null)
    IN  IF new_value = old_value THEN f
        ELSE IF HasRows(f) THEN confirm(f, new_value, old_value)
        ELSE [fetch_wiki_space(f) EXCEPT !.old_wiki_space = new_value]

----------------------------------------------------------------------------
(* src/wiki/wiki/doctype/wiki_space_access/wiki_space_access.js *)

refresh_wsa(f) ==
    set_query(IF Truthy(f.wiki_space) THEN Effect(f, "msgprint") ELSE f)

\* the Yes callback: frm.doc.access_list = []
yes_wsa(f) == [f EXCEPT !.access_list = [defined |-> TRUE, rows |-> <<>>]]

\* the .then callback of the handler's get_doc
wiki_space_wsa_then(f, route) ==
    refresh_field([Effect(Effect(f, "console.log"), "msgprint")
                      EXCEPT !.route_value = route])

wiki_space_wsa(f) ==
    get_doc(IF f.access_list.defined THEN confirm(f, Undefined, Undefined) ELSE f,
            f.wiki_space)

----------------------------------------------------------------------------
(* The handlers frappe.ui.form.on registers, by installed script *)

onload(s, f) ==
    CASE s = "part_000" -> onload_000(f)
      [] s = "part_001" -> onload_001(f)
      [] OTHER -> f

refresh(s, f) ==
    CASE s = "part_000" -> refresh_000(f)
      [] s = "part_001" -> refresh_001(f)
      [] OTHER -> refresh_wsa(f)

wiki_space_handler(s, f) ==
    CASE s = "part_000" -> wiki_space_000(f)
      [] s = "part_001" -> wiki_space_001(f)
      [] OTHER -> wiki_space_wsa(f)

\* frm.set_value("wiki_space", value): the framework stores the value and triggers
\* the field's handler when the value differs from the stored one
set_value(s, f, value) ==
    IF f.wiki_space = value THEN f
    ELSE wiki_space_handler(s, [f EXCEPT !.wiki_space = value])

\* the callbacks of the confirmation, with the values they captured
confirm_yes(s, f, new_value) ==
    CASE s = "part_000" -> yes_000(f, new_value)
      [] s = "part_001" -> proceed_001(f, new_value)
      [] OTHER -> yes_wsa(f)

\* faulty variant: the No callback leaves the field as the operator set it
confirm_no_keeps_field(s, f, old_value) == f

confirm_no(s, f, old_value) ==
    CASE s = "part_000" -> set_value(s, f, old_value)
      [] s = "part_001" -> set_value(s, f, old_value)
      [] OTHER -> f

get_doc_then(s, f, route) ==
    CASE s = "part_000" -> fetch_wiki_space_then(f, route)
      [] s = "part_001" -> update_wiki_space_route_then(f, route)
      [] OTHER -> wiki_space_wsa_then(f, route)

----------------------------------------------------------------------------
(* The page selector of an access_list row *)

\* filters: { wiki_space_route: frm.route_value || "" }
QueryScope(f) == Or(f.route_value, Empty)

\* fetch_page_simple_link: the pages whose space has the route asked for; the empty
\* scope matches nothing by route
PageChoices(scope) ==
    {p \in Pages : scope # Empty /\ SpaceRoute(PageSpace(p)) = scope}

----------------------------------------------------------------------------
(* Events *)

Pending(f) == f.requests["eng"] + f.requests["sales"] + f.requests["misc"]
    + f.requests[Undefined] + f.requests[Null] + f.requests[Empty]

\* the event starts with no side effect done; when it ends the form holds what its
\* handlers left.  An event that would exceed the request bound is not taken.
Commit(f) ==
    /\ Pending(f) <= MaxPending
    /\ wiki_space' = f.wiki_space
    /\ access_list' = f.access_list
    /\ old_wiki_space' = f.old_wiki_space
    /\ route_value' = f.route_value
    /\ dialog' = f.dialog
    /\ requests' = f.requests
    /\ effects' = f.effects
    /\ script' = script
    /\ UNCHANGED record_vars

\* an event begins: effects holds the event's name, then what its handlers do
Start(event) == [Frm EXCEPT !.effects = <<event>>]

\* the form opens the document: onload, then refresh
FormLoad ==
    /\ ~loaded
    /\ loaded' = TRUE
    /\ Commit(refresh(script, onload(script, Start("load"))))

\* a later refresh of the form
Refresh ==
    /\ loaded /\ ~dialog.open
    /\ loaded' = loaded
    /\ Commit(refresh(script, Start("refresh")))

\* what the operator can put in the field: a space, or nothing
Choices == Spaces \cup {Empty}

\* the operator changes wiki_space: the framework stores the value, which differs
\* from the stored one, and triggers the field's handler
Change(v) ==
    /\ loaded /\ ~dialog.open
    /\ v # wiki_space
    /\ loaded' = loaded
    /\ Commit(wiki_space_handler(script, [Start("change") EXCEPT !.wiki_space = v]))

\* the operator answers Yes
Confirm ==
    /\ dialog.open
    /\ loaded' = loaded
    /\ Commit(confirm_yes(script, [Start("yes") EXCEPT !.dialog = NoDialog],
                          dialog.new_value))

\* the operator answers No, or closes the dialog
Decline ==
    /\ dialog.open
    /\ loaded' = loaded
    /\ Commit(confirm_no(script, [Start("no") EXCEPT !.dialog = NoDialog],
                         dialog.old_value))

\* the operator adds a row and picks one of the pages the selector offers
AddRow(p) ==
    /\ loaded /\ ~dialog.open
    /\ Len(access_list.rows) < MaxRows
    /\ p \in PageChoices(QueryScope(Frm))
    /\ loaded' = loaded
    /\ Commit([Start("add_row") EXCEPT
                  !.access_list = [defined |-> TRUE, rows |-> Append(@.rows, p)]])

\* a get_doc request is answered with the Wiki Space
FetchSucceed(name) ==
    /\ requests[name] > 0
    /\ name \in Spaces
    /\ loaded' = loaded
    /\ Commit(get_doc_then(script, [Start("resolved") EXCEPT !.requests[name] = @ - 1],
                           SpaceRoute(name)))

\* a get_doc request fails: the promise is rejected and no callback of the script runs
FetchFail(name) ==
    /\ requests[name] > 0
    /\ loaded' = loaded
    /\ Commit([Start("rejected") EXCEPT !.requests[name] = @ - 1])

----------------------------------------------------------------------------
(* The documents the form is opened on: a new one, or a saved one whose rows are
   pages of its space *)

RowsOf(s) ==
    UNION {[1..n -> {p \in Pages : PageSpace(p) = s}] : n \in 0..MaxRows}

\* the editor's session touches no access record
Init ==
    /\ user_access = [u \in {} |-> 0]
    /\ space_access = [a \in {} |-> 0]
    /\ allow_guest = {}
    /\ disable_guest_access = FALSE
    /\ script \in Scripts
    /\ loaded = FALSE
    /\ \/ /\ wiki_space = Undefined
          /\ access_list \in {[defined |-> FALSE, rows |-> <<>>],
                              [defined |-> TRUE, rows |-> <<>>]}
       \/ /\ wiki_space \in Spaces
          /\ \E rows \in RowsOf(wiki_space) :
                access_list = [defined |-> TRUE, rows |-> rows]
    /\ old_wiki_space = Undefined
    /\ route_value = Undefined
    /\ dialog = NoDialog
    /\ requests = [n \in Values |-> 0]
    /\ effects = <<>>

Next ==
    \/ FormLoad
    \/ Refresh
    \/ \E v \in Choices : Change(v)
    \/ Confirm
    \/ Decline
    \/ \E p \in Pages : AddRow(p)
    \/ \E n \in Values : FetchSucceed(n)
    \/ \E n \in Values : FetchFail(n)

Spec == Init /\ [][Next]_vars

\* the sessions in which the server answers every request it can answer
NextAllSucceed ==
    \/ FormLoad
    \/ Refresh
    \/ \E v \in Choices : Change(v)
    \/ Confirm
    \/ Decline
    \/ \E p \in Pages : AddRow(p)
    \/ \E n \in Values : FetchSucceed(n)

SpecAllSucceed == Init /\ [][NextAllSucceed]_vars

TypeOK ==
    /\ script \in Scripts
    /\ loaded \in BOOLEAN
    /\ wiki_space \in Values
    /\ access_list.defined \in BOOLEAN
    /\ Len(access_list.rows) <= MaxRows
    /\ old_wiki_space \in Values
    /\ route_value \in Routes
    /\ dialog.open \in BOOLEAN
    /\ Pending(Frm) <= MaxPending

----------------------------------------------------------------------------
(* Access resolution of a Wiki Page (Wiki Page README, Advanced Access Control Flow) *)

Guest == "Guest"
Users == {"A"}

WikiSpaces == {"S1", "S2"}
WikiPages == {"P1", "P2"}

\* the space a Wiki Page belongs to
SpaceOfPage(p) == IF p = "P1" THEN "S1" ELSE "S2"

SpaceAccessIds == {"SA1", "SA2"}

\* a row of Wiki Space Access.access_list
Entries == [page : WikiPages, visible : BOOLEAN, editable : BOOLEAN]

Records ==
    [user_access |-> user_access, space_access |-> space_access,
     allow_guest |-> allow_guest, disable_guest_access |-> disable_guest_access]

\* steps 1, 2 and 9: the page's allow_guest under the global setting
guest_logic(db, page) ==
    [canView |-> page \in db.allow_guest /\ ~db.disable_guest_access,
     canEdit |-> FALSE]

\* faulty variant: a draft Wiki User Access counts too
active_user_access_any_docstatus(db, user) ==
    user \in DOMAIN db.user_access /\ db.user_access[user].status # "absent"

\* step 3: the user's Wiki User Access counts when submitted (docstatus = 1)
active_user_access(db, user) ==
    user \in DOMAIN db.user_access /\ db.user_access[user].status = "submitted"

\* faulty variant: the enabled check of a row is not read
enabled_grants_all_rows(db, user) ==
    {db.user_access[user].grants[i].wiki_space_access :
        i \in 1..Len(db.user_access[user].grants)}

\* step 4: the Wiki Space Access records of the enabled Wiki Access rows
enabled_grants(db, user) ==
    {db.user_access[user].grants[i].wiki_space_access :
        i \in {j \in 1..Len(db.user_access[user].grants) :
                  db.user_access[user].grants[j].enabled}}

\* faulty variant: docstatus of the Wiki Space Access is not read
matching_space_access_any_docstatus(db, user, page) ==
    {a \in enabled_grants(db, user) :
        /\ db.space_access[a].status # "absent"
        /\ db.space_access[a].space = SpaceOfPage(page)}

\* step 5: those that are submitted and are for the page's space; a reference to
\* a record that does not exist, or is not submitted, matches nothing
matching_space_access(db, user, page) ==
    {a \in enabled_grants(db, user) :
        /\ db.space_access[a].status = "submitted"
        /\ db.space_access[a].space = SpaceOfPage(page)}

\* faulty variant: only one of the matching Wiki Space Access records is read
page_entries_first_match(db, user, page) ==
    IF matching_space_access(db, user, page) = {} THEN {}
    ELSE {e \in db.space_access[CHOOSE a \in matching_space_access(db, user, page) :
                                    TRUE].entries : e.page = page}

\* steps 6 and 7: any visible / editable row for the page among them
page_entries(db, user, page) ==
    {e \in UNION {db.space_access[a].entries : a \in matching_space_access(db, user, page)} :
        e.page = page}

\* faulty variant: a page with no row falls back to the guest logic
resolve_unlisted_is_guest(db, user, page) ==
    IF user = Guest \/ ~active_user_access(db, user) THEN guest_logic(db, page)
    ELSE IF page_entries(db, user, page) = {} THEN guest_logic(db, page)
    ELSE [canView |-> \E e \in page_entries(db, user, page) : e.visible,
          canEdit |-> \E e \in page_entries(db, user, page) : e.editable]

\* faulty variant: whoever may view may edit
resolve_edit_follows_view(db, user, page) ==
    IF user = Guest \/ ~active_user_access(db, user) THEN guest_logic(db, page)
    ELSE IF matching_space_access(db, user, page) = {} THEN guest_logic(db, page)
    ELSE [canView |-> \E e \in page_entries(db, user, page) : e.visible,
          canEdit |-> \E e \in page_entries(db, user, page) : e.visible]

resolve(db, user, page) ==
    IF user = Guest \/ ~active_user_access(db, user) THEN guest_logic(db, page)
    ELSE IF matching_space_access(db, user, page) = {} THEN guest_logic(db, page)
    ELSE [canView |-> \E e \in page_entries(db, user, page) : e.visible,
          canEdit |-> \E e \in page_entries(db, user, page) : e.editable]

\* what the caller does with the answer: no view sends the user to login, and
\* edit mode (?editWiki=1) is refused without edit permission
verify_permission(db, user, page, edit_mode) ==
    LET r == resolve(db, user, page)
    IN  IF ~r.canView THEN "login"
        ELSE IF edit_mode /\ ~r.canEdit THEN "no_edit"
        ELSE "render"

----------------------------------------------------------------------------
(* The records an administrator keeps *)

EntrySets == {es \in SUBSET Entries : Cardinality(es) <= MaxEntries}

SpaceAccessRecords ==
    {[status |-> "absent", space |-> "S1", entries |-> {}]}
    \cup [status : {"draft", "submitted"}, space : WikiSpaces, entries : EntrySets]

\* rows are added enabled; an administrator clears and sets the check afterwards
NewGrantLists ==
    UNION {[1..n -> [wiki_space_access : SpaceAccessIds, enabled : {TRUE}]] :
              n \in 0..MaxGrants}

UserAccessRecords ==
    {[status |-> "absent", grants |-> <<>>]}
    \cup [status : {"draft", "submitted"}, grants : NewGrantLists]

\* enabled is set or cleared on row i of the user's wiki_access_list
SetGrantEnabled(u, i, b) ==
    /\ i \in 1..Len(user_access[u].grants)
    /\ user_access[u].grants[i].enabled # b
    /\ user_access' = [user_access EXCEPT ![u].grants[i].enabled = b]
    /\ UNCHANGED <<space_access, allow_guest, disable_guest_access, editor_vars>>

DisableGrant(u, i) == SetGrantEnabled(u, i, FALSE)

EnableGrant(u, i) == SetGrantEnabled(u, i, TRUE)

\* a Wiki User Access is submitted, or cancelled
SetUserAccessStatus(u, st) ==
    /\ user_access[u].status \notin {"absent", st}
    /\ user_access' = [user_access EXCEPT ![u].status = st]
    /\ UNCHANGED <<space_access, allow_guest, disable_guest_access, editor_vars>>

\* a Wiki Space Access is submitted, or cancelled
SetSpaceAccessStatus(a, st) ==
    /\ space_access[a].status \notin {"absent", st}
    /\ space_access' = [space_access EXCEPT ![a].status = st]
    /\ UNCHANGED <<user_access, allow_guest, disable_guest_access, editor_vars>>

RecordsNext ==
    \/ \E u \in Users, i \in 1..MaxGrants : DisableGrant(u, i)
    \/ \E u \in Users, i \in 1..MaxGrants : EnableGrant(u, i)
    \/ \E u \in Users, st \in {"draft", "submitted"} : SetUserAccessStatus(u, st)
    \/ \E a \in SpaceAccessIds, st \in {"draft", "submitted"} : SetSpaceAccessStatus(a, st)

ResolverInit ==
    /\ script = "part_001"
    /\ loaded = FALSE
    /\ wiki_space = Undefined
    /\ access_list = [defined |-> FALSE, rows |-> <<>>]
    /\ old_wiki_space = Undefined
    /\ route_value = Undefined
    /\ dialog = NoDialog
    /\ requests = [n \in Values |-> 0]
    /\ effects = <<>>
    /\ user_access \in [Users -> UserAccessRecords]
    /\ space_access \in [SpaceAccessIds -> SpaceAccessRecords]
    /\ allow_guest \in SUBSET WikiPages
    /\ disable_guest_access \in BOOLEAN

ResolverSpec == ResolverInit /\ [][RecordsNext]_vars

----------------------------------------------------------------------------
(* Claims about the editor *)

\* unset and empty are the same value
LooseEq(a, b) == a = b \/ (a \in Falsy /\ b \in Falsy)

Tracking == {"part_000", "part_001"}

\* the committed space: frm.old_wiki_space where the script keeps it; the script
\* that keeps none has only the field, once the operator has answered
CommittedSpace == IF script \in Tracking THEN old_wiki_space ELSE wiki_space

InScope(p, space) ==
    /\ space \in Spaces
    /\ SpaceRoute(PageSpace(p)) = SpaceRoute(space)

\* C1: in every state of the loaded editor, every row of access_list is a page in
\* the route scope of the committed space.
C1_RowsInCommittedScope ==
    (loaded /\ script \in {"part_001", "wiki_space_access"} /\ ~dialog.open) =>
        \A i \in 1..Len(access_list.rows) :
            InScope(access_list.rows[i], CommittedSpace)

\* C2: when the operator declines the clearing of a list that has rows, the field
\* holds previousSpace again, access_list is what it was and previousSpace is
\* unchanged.
C2_DeclineReverts ==
    [][(Decline /\ HasRows(Frm) /\ script \in {"part_001", "wiki_space_access"}) =>
          /\ LooseEq(wiki_space', old_wiki_space)
          /\ access_list' = access_list
          /\ old_wiki_space' = old_wiki_space]_vars

\* C3: when the operator confirms the change to v, access_list is empty and
\* previousSpace is v, a fetch of v has left if v names a space, and when a fetch
\* succeeds the selector's scope is the route of the space fetched.
C3_ConfirmCommits ==
    [][/\ (Confirm /\ script \in Tracking) =>
              /\ access_list'.defined /\ access_list'.rows = <<>>
              /\ old_wiki_space' = dialog.new_value
              /\ wiki_space' = dialog.new_value
              /\ dialog.new_value \in Spaces =>
                    requests' = [requests EXCEPT ![dialog.new_value] = @ + 1]
       /\ \A n \in Spaces : (FetchSucceed(n) /\ script \in Tracking) =>
              Or(route_value', Empty) = SpaceRoute(n)]_vars

\* C3 witness: the operator has just confirmed a change from eng to sales in
\* part_001: the list is cleared, sales is committed and its fetch is out.
C3_Witness ==
    /\ script = "part_001"
    /\ effects = <<"yes", "clear_table", "refresh_field", "get_doc">>
    /\ old_wiki_space = "sales"
    /\ access_list.rows = <<>>
    /\ requests["sales"] = 1

\* C4: a change event whose new value is previousSpace does nothing: no
\* confirmation, no fetch, access_list, previousSpace and routeCache unchanged.
C4_SameValueNoOp ==
    [][\A v \in Choices :
          (Change(v) /\ v = old_wiki_space
                     /\ script \in {"part_001", "wiki_space_access"}) =>
              /\ dialog' = dialog
              /\ requests' = requests
              /\ access_list' = access_list
              /\ old_wiki_space' = old_wiki_space
              /\ route_value' = route_value]_vars

\* C5: a change presents the confirmation exactly when the new value differs from
\* previousSpace and access_list has rows; with no rows the change is committed at
\* once: previousSpace is the new value and, if it names a space, its fetch is out.
C5_PromptIffRows ==
    [][\A v \in Choices :
          (Change(v) /\ script \in {"part_001", "wiki_space_access"}) =>
              /\ dialog'.open <=> (v # old_wiki_space /\ HasRows(Frm))
              /\ (~HasRows(Frm) /\ v # old_wiki_space) =>
                    /\ old_wiki_space' = v
                    /\ v \in Spaces =>
                          requests' = [requests EXCEPT ![v] = @ + 1]]_vars

\* C6: form load stores the document's wiki_space as previousSpace and, when it is
\* set, sends the fetch of its route.
C6_LoadFetchesRoute ==
    [][FormLoad =>
          /\ old_wiki_space' = wiki_space
          /\ Truthy(wiki_space) =>
                requests' = [requests EXCEPT ![wiki_space] = @ + 1]]_vars

\* C7: a failed fetch leaves routeCache as it was, is reported to the operator as a
\* warning, and leaves the editor able to take the next event.
C7_FailedFetchWarns ==
    [][\A n \in Values :
          (FetchFail(n) /\ script \in Tracking) =>
              /\ route_value' = route_value
              /\ \E i \in 1..Len(effects') :
                    effects'[i] \in {"msgprint", "console.warn", "console.error"}]_vars

\* the number of get_doc requests an event sent
Fetches(e) == Cardinality({i \in 1..Len(e) : e[i] = "get_doc"})

\* C13: an event sends one fetch when it commits a space (form load with the field
\* set, a change committed at once, a confirmed change) and none otherwise: not
\* for a no-op change, not while the confirmation is open, not when it is declined.
C13_OneFetchPerCommit ==
    [][/\ (FormLoad /\ script = "part_001") =>
              Fetches(effects') = IF wiki_space \in Spaces THEN 1 ELSE 0
       /\ \A v \in Choices :
              (Change(v) /\ script \in {"part_001", "wiki_space_access"}) =>
                  Fetches(effects') =
                      IF dialog'.open \/ LooseEq(v, CommittedSpace) \/ v \notin Spaces
                      THEN 0 ELSE 1
       /\ (Confirm /\ script \in {"part_001", "wiki_space_access"}) =>
              Fetches(effects') = IF wiki_space \in Spaces THEN 1 ELSE 0
       /\ (Decline /\ script \in {"part_001", "wiki_space_access"}) =>
              Fetches(effects') = 0]_vars

\* C14: the step that stores a fetched route in routeCache refreshes access_list,
\* whatever the route, and the selector's query carries the routeCache of the
\* moment.
C14_RouteWriteRefreshes ==
    [][/\ \A n \in Spaces :
              (FetchSucceed(n) /\ script \in Tracking) =>
                  \E i \in 1..Len(effects') : effects'[i] = "refresh_field"
       /\ script \in Tracking => LooseEq(QueryScope(Frm), route_value)]_vars

\* C15: after a failed fetch the selector's query has the empty scope.
C15_FailedFetchEmptiesScope ==
    [][\A n \in Values :
          (FetchFail(n) /\ script = "part_001") =>
              Or(route_value', Empty) = Empty]_vars

\* C17: when the last outstanding fetch is answered, every fetch having been
\* answered with its space, the selector's scope is the route of the committed
\* space.
C17_LastAnswerIsCommittedRoute ==
    [][\A n \in Spaces :
          (/\ FetchSucceed(n)
           /\ requests' = [x \in Values |-> 0]
           /\ ~dialog.open
           /\ CommittedSpace \in Spaces) =>
              Or(route_value', Empty) = SpaceRoute(CommittedSpace)]_vars

\* C18: with no confirmation open the field and previousSpace hold the same
\* value, unset and empty counting as one; a confirmation is open only over a
\* list that has rows.
C18_FieldIsPreviousSpace ==
    (loaded /\ script \in Tracking) =>
        IF dialog.open THEN HasRows(Frm)
        ELSE LooseEq(wiki_space, old_wiki_space)

\* C18 witness: in part_000 the operator has declined a change away from eng;
\* the field is back to eng over the rows it had.
C18_Witness ==
    /\ script = "part_000"
    /\ effects = <<"no">>
    /\ wiki_space = "eng" /\ old_wiki_space = "eng"
    /\ HasRows(Frm)

\* C19: once the empty value is committed and no fetch is outstanding, the
\* selector's scope is empty.
C19_ClearedSpaceClearsScope ==
    (/\ loaded /\ script \in Tracking /\ ~dialog.open
     /\ old_wiki_space = Empty
     /\ Pending(Frm) = 0) =>
        QueryScope(Frm) = Empty

\* C20: declining closes the confirmation and does nothing else: the revert's
\* own change event opens no second confirmation, sends no fetch and clears nothing.
C20_DeclineIsQuiet ==
    [][(Decline /\ script \in Tracking) =>
          /\ ~dialog'.open
          /\ effects' = <<"no">>
          /\ requests' = requests
          /\ access_list' = access_list
          /\ old_wiki_space' = old_wiki_space]_vars

\* C20 witness: in part_001 the operator has declined a change made while
\* previousSpace was empty; the field is null and nothing else moved.
C20_Witness ==
    /\ script = "part_001"
    /\ effects = <<"no">>
    /\ old_wiki_space = Empty /\ wiki_space = Null
    /\ HasRows(Frm) /\ ~dialog.open

----------------------------------------------------------------------------
(* Claims about access resolution *)

GuestResult(p) ==
    [canView |-> p \in allow_guest /\ ~disable_guest_access, canEdit |-> FALSE]

\* C8: a user with no submitted Wiki User Access (none, or a draft) gets the
\* guest result on every page, whatever the grants and Wiki Space Access say.
C8_NoSubmittedAccessIsGuest ==
    \A u \in Users, p \in WikiPages :
        user_access[u].status # "submitted" =>
            resolve(Records, u, p) = GuestResult(p)

\* C8 witness: a draft Wiki User Access holds an enabled grant to a submitted
\* Wiki Space Access for P1's space with a visible, editable row for P1, and P1
\* is closed to guests.
C8_Witness ==
    /\ user_access["A"].status = "draft"
    /\ user_access["A"].grants = <<[wiki_space_access |-> "SA1", enabled |-> TRUE]>>
    /\ space_access["SA1"] =
          [status |-> "submitted", space |-> "S1",
           entries |-> {[page |-> "P1", visible |-> TRUE, editable |-> TRUE]}]
    /\ "P1" \notin allow_guest

\* C9: with a submitted Wiki User Access, an enabled grant to a submitted Wiki
\* Space Access for the page's space and one matching row e for the page, canView
\* is e.visible and canEdit is e.editable; visible without editable is view only
\* (edit mode is refused), and neither is no access.
C9_SingleEntryDecides ==
    \A u \in Users, p \in WikiPages, e \in Entries :
        (/\ user_access[u].status = "submitted"
         /\ matching_space_access(Records, u, p) # {}
         /\ page_entries(Records, u, p) = {e}) =>
            /\ resolve(Records, u, p) = [canView |-> e.visible, canEdit |-> e.editable]
            /\ (e.visible /\ ~e.editable) =>
                  /\ verify_permission(Records, u, p, FALSE) = "render"
                  /\ verify_permission(Records, u, p, TRUE) = "no_edit"
            /\ (~e.visible /\ ~e.editable) =>
                  verify_permission(Records, u, p, FALSE) = "login"

\* C9 witness: the one row for P1 is visible and not editable, and P1 is closed
\* to guests.
C9_Witness ==
    /\ user_access["A"].status = "submitted"
    /\ user_access["A"].grants = <<[wiki_space_access |-> "SA1", enabled |-> TRUE]>>
    /\ space_access["SA1"] =
          [status |-> "submitted", space |-> "S1",
           entries |-> {[page |-> "P1", visible |-> TRUE, editable |-> FALSE]}]
    /\ "P1" \notin allow_guest

\* the records with row i of the user's wiki_access_list deleted
WithoutGrant(db, u, i) ==
    [db EXCEPT !.user_access[u].grants =
        [j \in 1..(Len(@) - 1) |-> IF j < i THEN @[j] ELSE @[j + 1]]]

\* C10: when a grant is disabled, every page resolves as if the grant were not in
\* the list, and a page whose space the grant's Wiki Space Access did not match
\* resolves as before.
C10_DisableRemovesGrant ==
    [][\A u \in Users, i \in 1..MaxGrants :
          DisableGrant(u, i) =>
              \A p \in WikiPages :
                  /\ resolve(Records', u, p) = resolve(WithoutGrant(Records, u, i), u, p)
                  /\ (\/ space_access[user_access[u].grants[i].wiki_space_access].status
                            # "submitted"
                      \/ space_access[user_access[u].grants[i].wiki_space_access].space
                            # SpaceOfPage(p)) =>
                        resolve(Records', u, p) = resolve(Records, u, p)]_vars

\* C10 witness: the grant to SA1 (P1 visible) has been disabled and the grant to
\* SA2 (P2 visible) is enabled: P1 is back to the guest result, P2 still granted.
C10_Witness ==
    /\ user_access["A"].status = "submitted"
    /\ user_access["A"].grants = <<[wiki_space_access |-> "SA1", enabled |-> FALSE],
                                   [wiki_space_access |-> "SA2", enabled |-> TRUE]>>
    /\ space_access["SA1"] =
          [status |-> "submitted", space |-> "S1",
           entries |-> {[page |-> "P1", visible |-> TRUE, editable |-> FALSE]}]
    /\ space_access["SA2"] =
          [status |-> "submitted", space |-> "S2",
           entries |-> {[page |-> "P2", visible |-> TRUE, editable |-> FALSE]}]
    /\ allow_guest = {}
    /\ resolve(Records, "A", "P1").canView = FALSE
    /\ resolve(Records, "A", "P2").canView = TRUE

\* the rows of the user's enabled grants whose Wiki Space Access is submitted
GrantedRows(u) ==
    {i \in 1..Len(user_access[u].grants) :
        /\ user_access[u].grants[i].enabled
        /\ space_access[user_access[u].grants[i].wiki_space_access].status = "submitted"}

SpaceAccessOf(u, i) == space_access[user_access[u].grants[i].wiki_space_access]

\* C11: an enabled grant whose Wiki Space Access is not submitted, or does not
\* exist, grants nothing: every page resolves as with that row deleted.
C11_InactiveSpaceAccessSkipped ==
    \A u \in Users :
        \A i \in 1..Len(user_access[u].grants) :
            (/\ user_access[u].grants[i].enabled
             /\ SpaceAccessOf(u, i).status # "submitted") =>
                \A p \in WikiPages :
                    resolve(Records, u, p) = resolve(WithoutGrant(Records, u, i), u, p)

\* C11 witness: the only grant is enabled and points at a draft Wiki Space Access
\* for P1's space with a visible, editable row for P1; P1 is closed to guests.
C11_Witness ==
    /\ user_access["A"].status = "submitted"
    /\ user_access["A"].grants = <<[wiki_space_access |-> "SA1", enabled |-> TRUE]>>
    /\ space_access["SA1"] =
          [status |-> "draft", space |-> "S1",
           entries |-> {[page |-> "P1", visible |-> TRUE, editable |-> TRUE]}]
    /\ "P1" \notin allow_guest
    /\ resolve(Records, "A", "P1") = [canView |-> FALSE, canEdit |-> FALSE]

\* the page is in no row of any submitted Wiki Space Access an enabled grant names
Unmentioned(u, p) ==
    \A i \in GrantedRows(u) : \A e \in SpaceAccessOf(u, i).entries : e.page # p

\* one of them is for the page's space
SpaceCovered(u, p) ==
    \E i \in GrantedRows(u) : SpaceAccessOf(u, i).space = SpaceOfPage(p)

C16_AnyGrantWins ==
    \A u \in Users, p \in WikiPages :
        (user_access[u].status = "submitted" /\ SpaceCovered(u, p)) =>
            /\ resolve(Records, u, p).canView <=>
                  \E i \in GrantedRows(u) :
                      /\ SpaceAccessOf(u, i).space = SpaceOfPage(p)
                      /\ \E e \in SpaceAccessOf(u, i).entries : e.page = p /\ e.visible
            /\ resolve(Records, u, p).canEdit <=>
                  \E i \in GrantedRows(u) :
                      /\ SpaceAccessOf(u, i).space = SpaceOfPage(p)
                      /\ \E e \in SpaceAccessOf(u, i).entries : e.page = p /\ e.editable

\* C16 witness: two submitted records for P1's space, one row hiding P1 and one
\* showing it; the user views P1 and cannot edit it.
C16_Witness ==
    /\ user_access["A"].status = "submitted"
    /\ user_access["A"].grants = <<[wiki_space_access |-> "SA1", enabled |-> TRUE],
                                   [wiki_space_access |-> "SA2", enabled |-> TRUE]>>
    /\ space_access["SA1"] =
          [status |-> "submitted", space |-> "S1",
           entries |-> {[page |-> "P1", visible |-> FALSE, editable |-> FALSE]}]
    /\ space_access["SA2"] =
          [status |-> "submitted", space |-> "S1",
           entries |-> {[page |-> "P1", visible |-> TRUE, editable |-> FALSE]}]
    /\ resolve(Records, "A", "P1") = [canView |-> TRUE, canEdit |-> FALSE]

\* a revocation: a grant is disabled, or a Wiki Space Access stops being submitted
Revoke ==
    \/ \E u \in Users, i \in 1..MaxGrants : DisableGrant(u, i)
    \/ \E a \in SpaceAccessIds : SetSpaceAccessStatus(a, "draft")

\* C21: a revocation gives nobody a page: whoever could not view a page before
\* it cannot view it after, and whoever could not edit it cannot edit it after.
C21_RevokeNeverGrants ==
    [][Revoke =>
          \A u \in Users, p \in WikiPages :
              /\ ~resolve(Records, u, p).canView => ~resolve(Records', u, p).canView
              /\ ~resolve(Records, u, p).canEdit => ~resolve(Records', u, p).canEdit]_vars

====
